---- MODULE Spec2Model ----
(***************************************************************************)
(* A model of the unit converter of main.go: the unit registry             *)
(* (NewUnitConverter), Convert, FormatResult and the /convert handler.     *)
(*                                                                         *)
(* The program computes in float64.  The model keeps that arithmetic: a    *)
(* float64 is a sign, a 53-bit significand and a binary exponent, and every*)
(* operation rounds its exact result to the nearest such number, ties to   *)
(* even, overflowing to an infinity and underflowing through the           *)
(* subnormals.  Significands are too wide for TLC's integers, so natural   *)
(* numbers are kept as sequences of 15-bit limbs, least significant first. *)
(***************************************************************************)
EXTENDS Integers, Sequences, FiniteSets, TLC

(***************************************************************************)
(* Natural numbers of any size: <<l1, l2, ...>> is l1 + l2*Base + ...,     *)
(* with no zero limb at the high end; <<>> is 0.                           *)
(***************************************************************************)
Base == 32768

LimbBits == 15

\* TLC evaluates a recursion on the Java stack, which holds a few hundred
\* levels: the loops below split their range in halves, so that a loop of n
\* steps nests about log2(n) deep.  TLC evaluates a LET definition when it
\* is first used; a half that feeds the other half is evaluated first, with
\* First, or the halves would nest one inside the other.
First(v, e) == IF v = v THEN e ELSE e

NatOf(n) ==
  IF n = 0 THEN <<>>
  ELSE IF n < Base THEN <<n>>
  ELSE IF n < Base * Base THEN <<n % Base, n \div Base>>
  ELSE <<n % Base, (n \div Base) % Base, n \div (Base * Base)>>

Highest(S) == CHOOSE i \in S : \A j \in S : j <= i

\* a without the zero limbs at its high end
Norm(a) ==
  LET nz == {i \in 1..Len(a) : a[i] # 0}
  IN  IF nz = {} THEN <<>> ELSE SubSeq(a, 1, Highest(nz))

\* -1, 0 or 1 as a < b, a = b or a > b
Cmp(a, b) ==
  IF Len(a) < Len(b) THEN -1
  ELSE IF Len(a) > Len(b) THEN 1
  ELSE LET df == {i \in 1..Len(a) : a[i] # b[i]}
       IN  IF df = {} THEN 0
           ELSE IF a[Highest(df)] < b[Highest(df)] THEN -1 ELSE 1

Limb(a, i) == IF i <= Len(a) THEN a[i] ELSE 0

\* limbs lo..hi of a + b with carry c into limb lo, and the carry out
RECURSIVE AddRange(_, _, _, _, _)
AddRange(a, b, lo, hi, c) ==
  IF lo = hi
  THEN LET s == Limb(a, lo) + Limb(b, lo) + c
       IN  [z |-> <<s % Base>>, c |-> s \div Base]
  ELSE LET mid == (lo + hi) \div 2
           l == AddRange(a, b, lo, mid, c)
           h == AddRange(a, b, mid + 1, hi, l.c)
       IN  First(l, [z |-> l.z \o h.z, c |-> h.c])

\* the limbs r.z, and the carry r.c above them if there is one
WithCarry(r) == IF r.c = 0 THEN r.z ELSE r.z \o <<r.c>>

Max(i, j) == IF i > j THEN i ELSE j

Min(i, j) == IF i < j THEN i ELSE j

Add(a, b) ==
  IF a = <<>> THEN b
  ELSE IF b = <<>> THEN a
  ELSE WithCarry(AddRange(a, b, 1, Max(Len(a), Len(b)), 0))

\* limbs lo..hi of a - b with borrow c from limb lo, and the borrow out
RECURSIVE SubRange(_, _, _, _, _)
SubRange(a, b, lo, hi, c) ==
  IF lo = hi
  THEN LET s == a[lo] - Limb(b, lo) - c
       IN  IF s < 0 THEN [z |-> <<s + Base>>, c |-> 1] ELSE [z |-> <<s>>, c |-> 0]
  ELSE LET mid == (lo + hi) \div 2
           l == SubRange(a, b, lo, mid, c)
           h == SubRange(a, b, mid + 1, hi, l.c)
       IN  First(l, [z |-> l.z \o h.z, c |-> h.c])

\* a - b, for a >= b
Sub(a, b) == IF a = <<>> THEN <<>> ELSE Norm(SubRange(a, b, 1, Len(a), 0).z)

\* limbs lo..hi of a * k with carry c into limb lo, and the carry out
RECURSIVE MulSmallRange(_, _, _, _, _)
MulSmallRange(a, k, lo, hi, c) ==
  IF lo = hi
  THEN LET s == a[lo] * k + c
       IN  [z |-> <<s % Base>>, c |-> s \div Base]
  ELSE LET mid == (lo + hi) \div 2
           l == MulSmallRange(a, k, lo, mid, c)
           h == MulSmallRange(a, k, mid + 1, hi, l.c)
       IN  First(l, [z |-> l.z \o h.z, c |-> h.c])

\* a * k, for 0 <= k < Base
MulSmall(a, k) ==
  IF k = 0 \/ a = <<>> THEN <<>>
  ELSE WithCarry(MulSmallRange(a, k, 1, Len(a), 0))

\* a * Base^n
ShiftLimbs(a, n) == IF a = <<>> THEN <<>> ELSE [i \in 1..n |-> 0] \o a

\* a times the limbs lo..hi of b, each at its place
RECURSIVE MulRange(_, _, _, _)
MulRange(a, b, lo, hi) ==
  IF lo = hi THEN ShiftLimbs(MulSmall(a, b[lo]), lo - 1)
  ELSE LET mid == (lo + hi) \div 2
       IN  Add(MulRange(a, b, lo, mid), MulRange(a, b, mid + 1, hi))

Mul(a, b) == IF a = <<>> \/ b = <<>> THEN <<>> ELSE MulRange(a, b, 1, Len(b))

\* the quotient limbs hi down to lo of a by k with remainder r above limb
\* hi, and the remainder below limb lo
RECURSIVE DivSmallRange(_, _, _, _, _)
DivSmallRange(a, k, lo, hi, r) ==
  IF lo = hi
  THEN LET s == r * Base + a[lo]
       IN  [q |-> <<s \div k>>, r |-> s % k]
  ELSE LET mid == (lo + hi) \div 2
           h == DivSmallRange(a, k, mid + 1, hi, r)
           l == DivSmallRange(a, k, lo, mid, h.r)
       IN  First(h, [q |-> l.q \o h.q, r |-> l.r])

\* the quotient of a by k, for 0 < k < Base
DivSmall(a, k) ==
  IF a = <<>> THEN <<>>
  ELSE Norm(DivSmallRange(a, k, 1, Len(a), 0).q)

\* a * 2^n
Shl(a, n) == ShiftLimbs(MulSmall(a, 2 ^ (n % LimbBits)), n \div LimbBits)

\* a \div 2^n
Shr(a, n) ==
  LET k == n \div LimbBits
  IN  IF k >= Len(a) THEN <<>>
      ELSE DivSmall(SubSeq(a, k + 1, Len(a)), 2 ^ (n % LimbBits))

\* the number of binary digits of n, for 0 < n < Base
SmallBitLen(n) == CHOOSE k \in 1..LimbBits : 2 ^ (k - 1) <= n /\ n < 2 ^ k

\* the number of binary digits of a; 0 for 0
BitLen(a) ==
  IF a = <<>> THEN 0
  ELSE LimbBits * (Len(a) - 1) + SmallBitLen(a[Len(a)])

\* binary digit i of a, digit 0 the lowest
Bit(a, i) == (Limb(a, (i \div LimbBits) + 1) \div (2 ^ (i % LimbBits))) % 2

\* whether a has a one among its n lowest binary digits
LowBitsSet(a, n) ==
  \E i \in 1..Len(a) :
     \/ i * LimbBits <= n /\ a[i] # 0
     \/ (i - 1) * LimbBits < n /\ n < i * LimbBits
          /\ a[i] % (2 ^ (n - (i - 1) * LimbBits)) # 0

\* a * Base + l
PushLimb(a, l) == IF a = <<>> /\ l = 0 THEN <<>> ELSE <<l>> \o a

\* the quotient of the top limbs of r by the top limb of d, at most Base - 1:
\* for r < d * Base and the top limb of d at least Base / 2 it is the
\* quotient of r by d, or exceeds it by at most 2
TrialQuotient(r, d) ==
  LET est == (Limb(r, Len(d) + 1) * Base + Limb(r, Len(d))) \div d[Len(d)]
  IN  Min(est, Base - 1)

\* q lowered until p = q * d is at most r, and what remains of r
RECURSIVE DivCorrect(_, _, _, _)
DivCorrect(r, d, q, p) ==
  IF Cmp(p, r) <= 0 THEN [q |-> q, r |-> Sub(r, p)]
  ELSE DivCorrect(r, d, q - 1, Sub(p, d))

DivTrial(r, d, q) == DivCorrect(r, d, q, MulSmall(d, q))

\* quotient (one limb) and remainder of r by d
DivDigit(r, d) == DivTrial(r, d, TrialQuotient(r, d))

DivStep(q, x) == [q |-> PushLimb(q, x.q), r |-> x.r]

\* Long division by d over the limbs hi down to lo of n, from quotient q and
\* remainder r of the limbs above them.
RECURSIVE DivRange(_, _, _, _, _, _)
DivRange(n, d, lo, hi, q, r) ==
  IF lo = hi
  THEN DivStep(q, DivDigit(PushLimb(r, Limb(n, lo)), d))
  ELSE LET mid == (lo + hi) \div 2
           h == DivRange(n, d, mid + 1, hi, q, r)
       IN  First(h, DivRange(n, d, lo, mid, h.q, h.r))

DivUnscale(x, sh) == [q |-> x.q, r |-> Shr(x.r, sh)]

\* n and d both times 2^sh, which brings the top limb of d to Base / 2 or
\* more and leaves the quotient as it is
DivScaled(n, d, sh) ==
  DivUnscale(DivRange(Shl(n, sh), Shl(d, sh), 1, Len(n) + 1, <<>>, <<>>), sh)

\* quotient and remainder of n by d, for d > 0
DivMod(n, d) ==
  IF n = <<>> THEN [q |-> <<>>, r |-> <<>>]
  ELSE DivScaled(n, d, LimbBits - SmallBitLen(d[Len(d)]))

\* 10^k, by squaring
RECURSIVE Pow10(_)
Pow10(k) ==
  IF k = 0 THEN <<1>>
  ELSE IF k % 2 = 1 THEN MulSmall(Pow10(k - 1), 10)
  ELSE LET h == Pow10(k \div 2) IN Mul(h, h)

(***************************************************************************)
(* float64.  A finite number is (-1)^s * m * 2^e with m = 0 and e = 0      *)
(* (a zero), or 2^52 <= m < 2^53 and MinExp <= e <= MaxExp (a normal), or  *)
(* 0 < m < 2^52 and e = MinExp (a subnormal): one record per value, so     *)
(* record equality is equality of values (except that +0 and -0 differ).   *)
(***************************************************************************)
MantBits == 53

MinExp == -1074

MaxExp == 971

NaN == [k |-> "nan", s |-> 0, m |-> <<>>, e |-> 0]

Inf(s) == [k |-> "inf", s |-> s, m |-> <<>>, e |-> 0]

Zero(s) == [k |-> "fin", s |-> s, m |-> <<>>, e |-> 0]

Fin(s, m, e) == [k |-> "fin", s |-> s, m |-> m, e |-> e]

IsNaN(a) == a.k = "nan"

IsInf(a) == a.k = "inf"

IsFinite(a) == a.k = "fin"

IsZero(a) == a.k = "fin" /\ a.m = <<>>

\* floor(log2(n / d)), for n, d > 0: k or k - 1, where k is the difference of
\* the lengths of n and d in binary digits
Log2Near(n, d, k) ==
  IF Cmp(Shl(n, Max(-k, 0)), Shl(d, Max(k, 0))) >= 0 THEN k ELSE k - 1

Log2Floor(n, d) == Log2Near(n, d, BitLen(n) - BitLen(d))

\* q or q + 1, as what was cut off q compares to one half (c < 0 below,
\* c = 0 equal, c > 0 above): the nearest integer, ties to even
Nearest(q, c) ==
  IF c > 0 \/ (c = 0 /\ Bit(q, 0) = 1) THEN Add(q, <<1>>) ELSE q

\* n / 2^k rounded to the nearest integer, ties to even, for k >= 0
ShrRound(n, k) ==
  IF k = 0 THEN n
  ELSE Nearest(Shr(n, k),
               IF Bit(n, k - 1) = 0 THEN -1
               ELSE IF LowBitsSet(n, k - 1) THEN 1 ELSE 0)

RoundQuotient(qr, d) == Nearest(qr.q, Cmp(MulSmall(qr.r, 2), d))

\* n / d rounded to the nearest integer, ties to even, for d > 0
DivRound(n, d) == RoundQuotient(DivMod(n, d), d)

\* (n / d) * 2^sh rounded to the nearest integer, ties to even
Quotient(n, d, sh) ==
  IF d = <<1>>
  THEN (IF sh >= 0 THEN Shl(n, sh) ELSE ShrRound(n, -sh))
  ELSE DivRound(Shl(n, Max(sh, 0)), Shl(d, Max(-sh, 0)))

\* the float64 (-1)^s * q * 2^e of a significand q of MantBits digits at
\* most, or of 2^MantBits, which rounding up can reach
Pack(s, q, e) ==
  IF q = <<>> THEN Zero(s)
  ELSE IF BitLen(q) <= MantBits THEN Fin(s, q, e)
  ELSE IF e + 1 > MaxExp THEN Inf(s)
  ELSE Fin(s, Shr(q, 1), e + 1)

\* the rounding of (-1)^s * (n / d) * 2^x whose significand, of MantBits
\* digits, has exponent e0: an infinity beyond MaxExp, a subnormal below
\* MinExp
RoundAt(s, n, d, x, e0) ==
  IF e0 > MaxExp THEN Inf(s)
  ELSE Pack(s, Quotient(n, d, x - Max(e0, MinExp)), Max(e0, MinExp))

\* the float64 nearest to (-1)^s * (n / d) * 2^x, ties to even: the rounding
\* every float64 operation applies to its exact result
RoundScaled(s, n, d, x) ==
  IF n = <<>> THEN Zero(s)
  ELSE RoundAt(s, n, d, x, Log2Floor(n, d) - (MantBits - 1) + x)

\* the float64 of the natural number n < 2^MantBits, which it holds exactly
Exact(s, n) ==
  IF n = <<>> THEN Zero(s)
  ELSE Fin(s, Shl(n, MantBits - BitLen(n)), BitLen(n) - MantBits)

FNeg(a) == IF IsNaN(a) THEN a ELSE [a EXCEPT !.s = 1 - a.s]

\* math.Abs
FAbs(a) == [a EXCEPT !.s = 0]

\* the sign and the magnitude of (-1)^s1 * a + (-1)^s2 * b
SignedSum(s1, a, s2, b) ==
  IF s1 = s2 THEN [s |-> s1, n |-> Add(a, b)]
  ELSE IF Cmp(a, b) >= 0 THEN [s |-> s1, n |-> Sub(a, b)]
  ELSE [s |-> s2, n |-> Sub(b, a)]

\* the float64 nearest to (-1)^v.s * v.n * 2^x; +0 when the terms cancel
RoundSum(v, x) ==
  IF v.n = <<>> THEN Zero(0) ELSE RoundScaled(v.s, v.n, <<1>>, x)

\* the float64 nearest to (-1)^s1 * m1 * 2^e1 + (-1)^s2 * m2 * 2^e2, for
\* natural numbers of any size, m1 > 0
SumRound(s1, m1, e1, s2, m2, e2) ==
  RoundSum(SignedSum(s1, Shl(m1, e1 - Min(e1, e2)),
                     s2, Shl(m2, e2 - Min(e1, e2))),
           Min(e1, e2))

\* a + b
FAdd(a, b) ==
  IF IsNaN(a) \/ IsNaN(b) THEN NaN
  ELSE IF IsInf(a) THEN (IF IsInf(b) /\ b.s # a.s THEN NaN ELSE a)
  ELSE IF IsInf(b) THEN b
  ELSE IF IsZero(a) /\ IsZero(b) THEN Zero(IF a.s = 1 /\ b.s = 1 THEN 1 ELSE 0)
  ELSE IF IsZero(a) THEN b
  ELSE IF IsZero(b) THEN a
  ELSE SumRound(a.s, a.m, a.e, b.s, b.m, b.e)

\* a - b
FSub(a, b) == FAdd(a, FNeg(b))

\* a * b
FMul(a, b) ==
  LET s == (a.s + b.s) % 2
  IN  IF IsNaN(a) \/ IsNaN(b) THEN NaN
      ELSE IF IsInf(a) \/ IsInf(b)
           THEN (IF IsZero(a) \/ IsZero(b) THEN NaN ELSE Inf(s))
      ELSE IF IsZero(a) \/ IsZero(b) THEN Zero(s)
      ELSE RoundScaled(s, Mul(a.m, b.m), <<1>>, a.e + b.e)

\* a * b + c with one rounding (a fused multiply-add)
FMulAdd(a, b, c) ==
  LET s == (a.s + b.s) % 2
  IN  IF IsNaN(a) \/ IsNaN(b) \/ IsNaN(c) THEN NaN
      ELSE IF IsInf(a) \/ IsInf(b)
           THEN (IF IsZero(a) \/ IsZero(b) THEN NaN
                 ELSE IF IsInf(c) /\ c.s # s THEN NaN ELSE Inf(s))
      ELSE IF IsInf(c) THEN c
      ELSE IF IsZero(a) \/ IsZero(b)
           THEN (IF IsZero(c) THEN Zero(IF s = 1 /\ c.s = 1 THEN 1 ELSE 0)
                 ELSE c)
      ELSE SumRound(s, Mul(a.m, b.m), a.e + b.e, c.s, c.m, c.e)

\* a / b
FDiv(a, b) ==
  LET s == (a.s + b.s) % 2
  IN  IF IsNaN(a) \/ IsNaN(b) THEN NaN
      ELSE IF IsInf(a) THEN (IF IsInf(b) THEN NaN ELSE Inf(s))
      ELSE IF IsInf(b) THEN Zero(s)
      ELSE IF IsZero(b) THEN (IF IsZero(a) THEN NaN ELSE Inf(s))
      ELSE IF IsZero(a) THEN Zero(s)
      ELSE RoundScaled(s, a.m, b.m, a.e - b.e)

\* a < b on the magnitudes of two finite numbers
MagLess(a, b) ==
  IF IsZero(b) THEN FALSE
  ELSE IF IsZero(a) THEN TRUE
  ELSE a.e < b.e \/ (a.e = b.e /\ Cmp(a.m, b.m) < 0)

\* a < b; false when either is a NaN
FLt(a, b) ==
  IF IsNaN(a) \/ IsNaN(b) THEN FALSE
  ELSE IF IsZero(a) /\ IsZero(b) THEN FALSE
  ELSE IF a.s # b.s THEN a.s = 1
  ELSE IF IsInf(a) \/ IsInf(b)
       THEN (IF a.s = 0 THEN ~IsInf(a) /\ IsInf(b) ELSE IsInf(a) /\ ~IsInf(b))
  ELSE IF a.s = 0 THEN MagLess(a, b) ELSE MagLess(b, a)

\* a > b
FGt(a, b) == FLt(b, a)

\* a == b; false when either is a NaN, true of +0 and -0
FEq(a, b) ==
  /\ ~IsNaN(a)
  /\ ~IsNaN(b)
  /\ (a = b \/ (IsZero(a) /\ IsZero(b)))

\* a >= b
FGe(a, b) == FGt(a, b) \/ FEq(a, b)

\* m / 2^k rounded to the nearest integer, halves upward, for k > 0
ShrHalfUp(m, k) ==
  IF Bit(m, k - 1) = 1 THEN Add(Shr(m, k), <<1>>) ELSE Shr(m, k)

\* math.Round: the nearest integer, halves away from zero; the sign is kept
MathRound(a) ==
  IF ~IsFinite(a) \/ IsZero(a) \/ a.e >= 0 THEN a
  ELSE Exact(a.s, ShrHalfUp(a.m, -a.e))

\* the float64 of the integer constant n >= 0
FromInt(n) == Exact(0, NatOf(n))

\* the float64 of the ratio n / d of two natural numbers (d > 0)
Ratio(n, d) == RoundScaled(0, n, d, 0)

\* the natural number whose digits in base 10^9 are c, highest first
RECURSIVE NatOfChunks(_)
NatOfChunks(c) ==
  IF c = <<>> THEN <<>>
  ELSE Add(Mul(NatOfChunks(SubSeq(c, 1, Len(c) - 1)), NatOf(1000000000)),
           NatOf(c[Len(c)]))

\* A constant expression of the source, kept as written: the digits c (in
\* base 10^9, highest first) times 10^-k, over the natural number d.  The
\* compiler computes with such constants exactly and rounds once, when the
\* constant becomes a float64.
\* a decimal literal, the last k of its digits after the point
Lit(c, k) == [c |-> c, k |-> k, d |-> 1]

\* n.0 / d.0
Quot(n, d) == [c |-> <<n>>, k |-> 0, d |-> d]

\* math.Pi / d; math.Pi is an untyped constant of 63 digits
PiOver(d) ==
  [c |-> <<314159265, 358979323, 846264338, 327950288, 419716939,
           937510582, 97494459>>,
   k |-> 62, d |-> d]

\* the float64 of a constant expression
Float64(x) ==
  Ratio(Mul(NatOfChunks(x.c), Pow10(Max(-x.k, 0))),
        Mul(NatOf(x.d), Pow10(Max(x.k, 0))))

(***************************************************************************)
(* The unit registry.                                                      *)
(***************************************************************************)
RegisteredSymbols ==
  {"mg", "g", "kg", "t", "oz", "lb", "nm", "µm",
   "mm", "cm", "m", "km", "in", "ft", "yd", "mi",
   "C", "F", "K", "Ra", "ns", "µs", "ms", "s",
   "min", "h", "day", "week", "year", "Hz", "kHz", "MHz",
   "GHz", "THz", "m/s", "km/h", "ft/s", "mph", "knot", "mach",
   "m³", "L", "gal", "fl_oz", "m²", "acre", "ha", "J",
   "cal", "kcal", "W", "HP", "N", "lbf", "Pa", "atm",
   "bar", "B", "bit", "KB", "MB", "GB", "rad", "deg",
   "arcmin", "arcsec"}

\* type Unit struct
Unit(f, o, d, n) == [Factor |-> f, Offset |-> o, Dimension |-> d, Name |-> n]

\* the units NewUnitConverter registers, symbol by symbol as main.go lists
\* them
UnitLiterals ==
  "mg" :> Unit(Lit(<<1>>, 3), Lit(<<0>>, 0), "mass", "Milligram") @@
  "g" :> Unit(Lit(<<1>>, 0), Lit(<<0>>, 0), "mass", "Gram") @@
  "kg" :> Unit(Lit(<<1000>>, 0), Lit(<<0>>, 0), "mass", "Kilogram") @@
  "t" :> Unit(Lit(<<1000000>>, 0), Lit(<<0>>, 0), "mass", "Tonne") @@
  "oz" :> Unit(Lit(<<283495>>, 4), Lit(<<0>>, 0), "mass", "Ounce") @@
  "lb" :> Unit(Lit(<<45359237>>, 5), Lit(<<0>>, 0), "mass", "Pound") @@
  "nm" :> Unit(Lit(<<1>>, 9), Lit(<<0>>, 0), "length", "Nanometer") @@
  "µm" :> Unit(Lit(<<1>>, 6), Lit(<<0>>, 0), "length", "Micrometer") @@
  "mm" :> Unit(Lit(<<1>>, 3), Lit(<<0>>, 0), "length", "Millimeter") @@
  "cm" :> Unit(Lit(<<1>>, 2), Lit(<<0>>, 0), "length", "Centimeter") @@
  "m" :> Unit(Lit(<<1>>, 0), Lit(<<0>>, 0), "length", "Meter") @@
  "km" :> Unit(Lit(<<1000>>, 0), Lit(<<0>>, 0), "length", "Kilometer") @@
  "in" :> Unit(Lit(<<254>>, 4), Lit(<<0>>, 0), "length", "Inch") @@
  "ft" :> Unit(Lit(<<3048>>, 4), Lit(<<0>>, 0), "length", "Foot") @@
  "yd" :> Unit(Lit(<<9144>>, 4), Lit(<<0>>, 0), "length", "Yard") @@
  "mi" :> Unit(Lit(<<1609344>>, 3), Lit(<<0>>, 0), "length", "Mile") @@
  "C" :> Unit(Lit(<<1>>, 0), Lit(<<27315>>, 2), "temperature", "Celsius") @@
  "F" :> Unit(Quot(5, 9), Lit(<<255372>>, 3), "temperature", "Fahrenheit") @@
  "K" :> Unit(Lit(<<1>>, 0), Lit(<<0>>, 0), "temperature", "Kelvin") @@
  "Ra" :> Unit(Quot(5, 9), Lit(<<0>>, 0), "temperature", "Rankine") @@
  "ns" :> Unit(Lit(<<1>>, 9), Lit(<<0>>, 0), "time", "Nanosecond") @@
  "µs" :> Unit(Lit(<<1>>, 6), Lit(<<0>>, 0), "time", "Microsecond") @@
  "ms" :> Unit(Lit(<<1>>, 3), Lit(<<0>>, 0), "time", "Millisecond") @@
  "s" :> Unit(Lit(<<1>>, 0), Lit(<<0>>, 0), "time", "Second") @@
  "min" :> Unit(Lit(<<60>>, 0), Lit(<<0>>, 0), "time", "Minute") @@
  "h" :> Unit(Lit(<<3600>>, 0), Lit(<<0>>, 0), "time", "Hour") @@
  "day" :> Unit(Lit(<<86400>>, 0), Lit(<<0>>, 0), "time", "Day") @@
  "week" :> Unit(Lit(<<604800>>, 0), Lit(<<0>>, 0), "time", "Week") @@
  "year" :> Unit(Lit(<<31536000>>, 0), Lit(<<0>>, 0), "time", "Year (365 days)") @@
  "Hz" :> Unit(Lit(<<1>>, 0), Lit(<<0>>, 0), "frequency", "Hertz") @@
  "kHz" :> Unit(Lit(<<1000>>, 0), Lit(<<0>>, 0), "frequency", "Kilohertz") @@
  "MHz" :> Unit(Lit(<<1000000>>, 0), Lit(<<0>>, 0), "frequency", "Megahertz") @@
  "GHz" :> Unit(Lit(<<1, 0>>, 0), Lit(<<0>>, 0), "frequency", "Gigahertz") @@
  "THz" :> Unit(Lit(<<1000, 0>>, 0), Lit(<<0>>, 0), "frequency", "Terahertz") @@
  "m/s" :> Unit(Lit(<<1>>, 0), Lit(<<0>>, 0), "speed", "Meters per second") @@
  "km/h" :> Unit(Lit(<<277778>>, 6), Lit(<<0>>, 0), "speed", "Kilometers per hour") @@
  "ft/s" :> Unit(Lit(<<3048>>, 4), Lit(<<0>>, 0), "speed", "Feet per second") @@
  "mph" :> Unit(Lit(<<44704>>, 5), Lit(<<0>>, 0), "speed", "Miles per hour") @@
  "knot" :> Unit(Lit(<<514444>>, 6), Lit(<<0>>, 0), "speed", "Knot") @@
  "mach" :> Unit(Lit(<<34029>>, 2), Lit(<<0>>, 0), "speed", "Mach (at sea level)") @@
  "m³" :> Unit(Lit(<<1>>, 0), Lit(<<0>>, 0), "volume", "Cubic Meter") @@
  "L" :> Unit(Lit(<<1>>, 3), Lit(<<0>>, 0), "volume", "Liter") @@
  "gal" :> Unit(Lit(<<3, 785411784>>, 12), Lit(<<0>>, 0), "volume", "Gallon (US)") @@
  "fl_oz" :> Unit(Lit(<<295, 735295625>>, 16), Lit(<<0>>, 0), "volume", "Fluid Ounce (US)") @@
  "m²" :> Unit(Lit(<<1>>, 0), Lit(<<0>>, 0), "area", "Square Meter") @@
  "acre" :> Unit(Lit(<<40, 468564224>>, 7), Lit(<<0>>, 0), "area", "Acre") @@
  "ha" :> Unit(Lit(<<10000>>, 0), Lit(<<0>>, 0), "area", "Hectare") @@
  "J" :> Unit(Lit(<<1>>, 0), Lit(<<0>>, 0), "energy", "Joule") @@
  "cal" :> Unit(Lit(<<4184>>, 3), Lit(<<0>>, 0), "energy", "Calorie") @@
  "kcal" :> Unit(Lit(<<4184>>, 0), Lit(<<0>>, 0), "energy", "Kilocalorie") @@
  "W" :> Unit(Lit(<<1>>, 0), Lit(<<0>>, 0), "power", "Watt") @@
  "HP" :> Unit(Lit(<<73549875>>, 5), Lit(<<0>>, 0), "power", "Horsepower") @@
  "N" :> Unit(Lit(<<1>>, 0), Lit(<<0>>, 0), "force", "Newton") @@
  "lbf" :> Unit(Lit(<<44, 482216153>>, 10), Lit(<<0>>, 0), "force", "Pound-force") @@
  "Pa" :> Unit(Lit(<<1>>, 0), Lit(<<0>>, 0), "pressure", "Pascal") @@
  "atm" :> Unit(Lit(<<101325>>, 0), Lit(<<0>>, 0), "pressure", "Atmosphere") @@
  "bar" :> Unit(Lit(<<100000>>, 0), Lit(<<0>>, 0), "pressure", "Bar") @@
  "B" :> Unit(Lit(<<1>>, 0), Lit(<<0>>, 0), "data_storage", "Byte") @@
  "bit" :> Unit(Lit(<<125>>, 3), Lit(<<0>>, 0), "data_storage", "Bit") @@
  "KB" :> Unit(Lit(<<1024>>, 0), Lit(<<0>>, 0), "data_storage", "Kilobyte") @@
  "MB" :> Unit(Lit(<<1048576>>, 0), Lit(<<0>>, 0), "data_storage", "Megabyte") @@
  "GB" :> Unit(Lit(<<1, 73741824>>, 0), Lit(<<0>>, 0), "data_storage", "Gigabyte") @@
  "rad" :> Unit(Lit(<<1>>, 0), Lit(<<0>>, 0), "angle", "Radian") @@
  "deg" :> Unit(PiOver(180), Lit(<<0>>, 0), "angle", "Degree") @@
  "arcmin" :> Unit(PiOver(10800), Lit(<<0>>, 0), "angle", "Minute") @@
  "arcsec" :> Unit(PiOver(648000), Lit(<<0>>, 0), "angle", "Second")

\* a Unit whose Factor and Offset have changed places
UnitOfSwapped(u) ==
  [Factor |-> Float64(u.Offset), Offset |-> Float64(u.Factor),
   Dimension |-> u.Dimension, Name |-> u.Name]

\* a Unit of the registry: its Factor and its Offset as float64
UnitOf(u) ==
  [Factor |-> Float64(u.Factor), Offset |-> Float64(u.Offset),
   Dimension |-> u.Dimension, Name |-> u.Name]

\* NewUnitConverter: the converter, with every unit registered
NewUnitConverter ==
  [units |-> [sym \in DOMAIN UnitLiterals |-> UnitOf(UnitLiterals[sym])]]

(***************************************************************************)
(* Convert.  An error is the sequence of the parts of its message; <<>> is *)
(* nil.                                                                    *)
(***************************************************************************)
Nil == <<>>

Precision == 12

\* math.Pow(10, p), for the powers of ten below 2^MantBits, which a float64
\* holds exactly
MathPow10(p) == Exact(0, Pow10(p))

\* x*y + z as the build computes it: two roundings, or one where the compiler
\* fuses the multiplication and the addition (the Go specification allows it;
\* the arm64, ppc64le, s390x and riscv64 compilers do it)
MulAdd(fused, a, b, c) ==
  IF fused THEN FMulAdd(a, b, c) ELSE FAdd(FMul(a, b), c)

\* Convert once both units are found and are of one dimension
ConvertUnits(fused, value, unitFrom, unitTo) ==
  LET baseValue == MulAdd(fused, value, unitFrom.Factor, unitFrom.Offset)
      result == IF unitFrom.Dimension = "temperature"
                THEN FDiv(FSub(baseValue, unitTo.Offset), unitTo.Factor)
                ELSE FDiv(FMul(value, unitFrom.Factor), unitTo.Factor)
      factor == MathPow10(Precision)
  IN  FDiv(MathRound(FMul(result, factor)), factor)

InvalidSourceUnit(from) == <<"invalid source unit: ", from>>

InvalidTargetUnit(to) == <<"invalid target unit: ", to>>

DimensionMismatch(from, unitFrom, to, unitTo) ==
  <<"cannot convert between different dimensions: ",
    from, " (", unitFrom.Dimension, ") and ", to, " (", unitTo.Dimension, ")">>

\* Convert with the dimensions of the two units not compared
ConvertAnyDimension(c, fused, value, from, to) ==
  IF from \notin DOMAIN c.units
  THEN [val |-> Zero(0), err |-> InvalidSourceUnit(from)]
  ELSE IF to \notin DOMAIN c.units
  THEN [val |-> Zero(0), err |-> InvalidTargetUnit(to)]
  ELSE [val |-> ConvertUnits(fused, value, c.units[from], c.units[to]),
        err |-> Nil]

\* Convert with the target unit looked up before the source unit
ConvertTargetFirst(c, fused, value, from, to) ==
  IF to \notin DOMAIN c.units
  THEN [val |-> Zero(0), err |-> InvalidTargetUnit(to)]
  ELSE IF from \notin DOMAIN c.units
  THEN [val |-> Zero(0), err |-> InvalidSourceUnit(from)]
  ELSE IF c.units[from].Dimension # c.units[to].Dimension
  THEN [val |-> Zero(0),
        err |-> DimensionMismatch(from, c.units[from], to, c.units[to])]
  ELSE [val |-> ConvertUnits(fused, value, c.units[from], c.units[to]),
        err |-> Nil]

Convert(c, fused, value, from, to) ==
  IF from \notin DOMAIN c.units
  THEN [val |-> Zero(0), err |-> InvalidSourceUnit(from)]
  ELSE IF to \notin DOMAIN c.units
  THEN [val |-> Zero(0), err |-> InvalidTargetUnit(to)]
  ELSE IF c.units[from].Dimension # c.units[to].Dimension
  THEN [val |-> Zero(0),
        err |-> DimensionMismatch(from, c.units[from], to, c.units[to])]
  ELSE [val |-> ConvertUnits(fused, value, c.units[from], c.units[to]),
        err |-> Nil]

(***************************************************************************)
(* Text.  A string is the sequence of its characters; a unit symbol is     *)
(* copied into a string whole and is kept as one element.                  *)
(***************************************************************************)
DigitChars == <<"0", "1", "2", "3", "4", "5", "6", "7", "8", "9">>

IsDigit(c) == \E i \in 1..10 : DigitChars[i] = c

DigitVal(c) == (CHOOSE i \in 1..10 : DigitChars[i] = c) - 1

\* the k decimal digits of the natural number n < 10^k, k >= 1
RECURSIVE DigitsOf(_, _)
SplitDigits(qr, k, h) == DigitsOf(qr.q, k - h) \o DigitsOf(qr.r, h)

DigitsOf(n, k) ==
  IF k = 1 THEN <<DigitChars[Limb(n, 1) + 1]>>
  ELSE SplitDigits(DivMod(n, Pow10(k \div 2)), k, k \div 2)

\* the number of decimal digits of n > 0
NumDigits(n) ==
  LET k == (BitLen(n) * 30103) \div 100000 + 1
  IN  IF Cmp(n, Pow10(k - 1)) < 0 THEN k - 1 ELSE k

\* the decimal digits of n, at least k of them
Decimal(n, k) == DigitsOf(n, Max(k, IF n = <<>> THEN 1 ELSE NumDigits(n)))

\* the natural number of a sequence of decimal digits
RECURSIVE NatOfDigits(_)
NatOfDigits(ds) ==
  IF ds = <<>> THEN <<>>
  ELSE IF Len(ds) = 1 THEN NatOf(DigitVal(ds[1]))
  ELSE LET h == Len(ds) \div 2
       IN  Add(Mul(NatOfDigits(SubSeq(ds, 1, Len(ds) - h)), Pow10(h)),
               NatOfDigits(SubSeq(ds, Len(ds) - h + 1, Len(ds))))

\* a finite a # 0 is (-1)^a.s * Numer(a) / Denom(a)
Numer(a) == Shl(a.m, Max(a.e, 0))

Denom(a) == Shl(<<1>>, Max(-a.e, 0))

\* |a| * 10^k rounded to the nearest integer, ties to even, for a finite a:
\* strconv rounds the exact decimal expansion of the float64
ScaledRound(a, k) ==
  DivRound(Mul(Numer(a), Pow10(Max(k, 0))), Mul(Denom(a), Pow10(Max(-k, 0))))

\* whether 10^t <= |a|, for a finite a # 0
Pow10AtMost(t, a) ==
  Cmp(Mul(Denom(a), Pow10(Max(t, 0))), Mul(Numer(a), Pow10(Max(-t, 0)))) <= 0

\* floor(log10(|a|)), for a finite a # 0
Log10Floor(a) ==
  LET b == BitLen(a.m) + a.e - 1
      t == IF b >= 0 THEN (b * 30103) \div 100000
                     ELSE -((-b * 30103 + 99999) \div 100000)
  IN  CHOOSE u \in (t - 1)..(t + 1) : Pow10AtMost(u, a) /\ ~Pow10AtMost(u + 1, a)

\* what fmt prints for an infinity or a NaN, whatever the verb
FmtSpecial(a) ==
  IF IsNaN(a) THEN <<"N", "a", "N">>
  ELSE IF a.s = 1 THEN <<"-", "I", "n", "f">> ELSE <<"+", "I", "n", "f">>

FmtSign(a) == IF a.s = 1 THEN <<"-">> ELSE <<>>

\* the digits ds with a point before the last prec of them
Pointed(ds, prec) ==
  IF prec = 0 THEN ds
  ELSE SubSeq(ds, 1, Len(ds) - prec) \o <<".">>
         \o SubSeq(ds, Len(ds) - prec + 1, Len(ds))

\* fmt's %.<prec>f
FmtFixed(a, prec) ==
  IF ~IsFinite(a) THEN FmtSpecial(a)
  ELSE FmtSign(a) \o Pointed(Decimal(ScaledRound(a, prec), prec + 1), prec)

\* the significand i, of prec + 1 digits, and the exponent x, of two digits
\* at least
SciDigits(i, x, prec) ==
  Pointed(Decimal(i, prec + 1), prec)
    \o <<"e", IF x < 0 THEN "-" ELSE "+">>
    \o Decimal(NatOf(IF x < 0 THEN -x ELSE x), 2)

\* a significand that rounding has carried to 10^(prec + 1) is 10^prec, with
\* the exponent one higher
SciCarry(i, x, prec, up) ==
  SciDigits(IF up THEN Pow10(prec) ELSE i, IF up THEN x + 1 ELSE x, prec)

SciRounded(i, x, prec) == SciCarry(i, x, prec, Cmp(i, Pow10(prec + 1)) >= 0)

\* |a| with prec digits after the first, x = floor(log10(|a|))
SciAt(a, x, prec) == SciRounded(ScaledRound(a, prec - x), x, prec)

\* fmt's %.<prec>e
FmtSci(a, prec) ==
  IF ~IsFinite(a) THEN FmtSpecial(a)
  ELSE FmtSign(a) \o SciAt(a, IF IsZero(a) THEN 0 ELSE Log10Floor(a), prec)

(***************************************************************************)
(* strconv.ParseFloat(s, 64) on decimal text: an optional sign, digits     *)
(* with at most one point, an optional exponent; or an infinity or a NaN   *)
(* by name.  (Hexadecimal text and digit separators are not among the      *)
(* texts the model submits.)                                               *)
(***************************************************************************)
Lower(c) ==
  CASE c = "A" -> "a" [] c = "E" -> "e" [] c = "F" -> "f" [] c = "I" -> "i"
    [] c = "N" -> "n" [] c = "T" -> "t" [] c = "Y" -> "y" [] OTHER -> c

LowerAll(t) == [i \in 1..Len(t) |-> Lower(t[i])]

IsSign(c) == c = "+" \/ c = "-"

InfNames == {<<"i", "n", "f">>, <<"i", "n", "f", "i", "n", "i", "t", "y">>}

\* the positions of t that hold c
Places(t, c) == {i \in 1..Len(t) : t[i] = c}

Lowest(S) == CHOOSE i \in S : \A j \in S : i <= j

AllDigits(t) == \A i \in 1..Len(t) : IsDigit(t[i])

\* the digits of t, its point left out
DigitsIn(t) ==
  LET pt == Places(t, ".")
  IN  IF pt = {} THEN t
      ELSE SubSeq(t, 1, Lowest(pt) - 1) \o SubSeq(t, Lowest(pt) + 1, Len(t))

\* digits, with at most one point among them
IsMantissa(t) ==
  /\ Cardinality(Places(t, ".")) <= 1
  /\ DigitsIn(t) # <<>>
  /\ AllDigits(DigitsIn(t))

\* a sign or none, then digits
IsExponent(t) ==
  LET ds == IF t # <<>> /\ IsSign(t[1]) THEN Tail(t) ELSE t
  IN  ds # <<>> /\ AllDigits(ds)

ExpCap == 10000

\* the number of a sequence of digits, no more digit taken in once it has
\* reached ExpCap
RECURSIVE SmallNat(_)
SmallNat(ds) ==
  IF ds = <<>> THEN 0
  ELSE LET hi == SmallNat(SubSeq(ds, 1, Len(ds) - 1))
       IN  IF hi < ExpCap THEN hi * 10 + DigitVal(ds[Len(ds)]) ELSE hi

ExpVal(t) ==
  IF t = <<>> THEN 0
  ELSE IF t[1] = "-" THEN -SmallNat(Tail(t))
  ELSE IF t[1] = "+" THEN SmallNat(Tail(t))
  ELSE SmallNat(t)

\* beyond these powers of ten every float64 is an infinity, or a zero
DecimalRange == 400

\* the float64 nearest to (-1)^sg * n * 10^x, n written with len digits
DecimalValue(sg, n, x, len) ==
  IF n = <<>> THEN Zero(sg)
  ELSE IF x > DecimalRange THEN Inf(sg)
  ELSE IF x < -DecimalRange - len THEN Zero(sg)
  ELSE RoundScaled(sg, Mul(n, Pow10(Max(x, 0))), Pow10(Max(-x, 0)), 0)

\* ParseFloat reports an infinity it had to round to as out of range
RangeChecked(v) ==
  IF IsInf(v) THEN [val |-> v, err |-> <<"value out of range">>]
  ELSE [val |-> v, err |-> <<>>]

\* the float64 nearest to (-1)^sg * (the digits ds) * 10^x
DecimalToFloat(sg, ds, x) ==
  RangeChecked(DecimalValue(sg, Norm(NatOfDigits(ds)), x, Len(ds)))

ParseFloat(t) ==
  LET sg == IF t # <<>> /\ t[1] = "-" THEN 1 ELSE 0
      body == IF t # <<>> /\ IsSign(t[1]) THEN Tail(t) ELSE t
      low == LowerAll(body)
      es == Places(low, "e")
      mant == IF es = {} THEN body ELSE SubSeq(body, 1, Lowest(es) - 1)
      expo == IF es = {} THEN <<>> ELSE SubSeq(body, Lowest(es) + 1, Len(body))
      pt == Places(mant, ".")
      frac == IF pt = {} THEN 0 ELSE Len(mant) - Lowest(pt)
  IN  IF low \in InfNames THEN [val |-> Inf(sg), err |-> <<>>]
      ELSE IF LowerAll(t) = <<"n", "a", "n">> THEN [val |-> NaN, err |-> <<>>]
      ELSE IF IsMantissa(mant) /\ (es = {} \/ IsExponent(expo))
           THEN DecimalToFloat(sg, DigitsIn(mant), ExpVal(expo) - frac)
      ELSE [val |-> Zero(0), err |-> <<"invalid syntax">>]

(***************************************************************************)
(* FormatResult and the /convert handler.                                  *)
(***************************************************************************)
\* FormatResult with scientific notation from 1,000,000 on, the bound included
FormatResultInclusive(result, unit) ==
  LET absResult == FAbs(result)
      decimalPlaces ==
        IF FGe(absResult, FromInt(1000)) THEN 0
        ELSE IF FGe(absResult, FromInt(100)) THEN 1
        ELSE IF FGe(absResult, FromInt(10)) THEN 2
        ELSE IF FGe(absResult, FromInt(1)) THEN 3
        ELSE 4
  IN  IF FLt(absResult, Float64(Lit(<<1>>, 3)))
           \/ FGe(absResult, FromInt(1000000))
      THEN FmtSci(result, 6) \o <<" ", unit>>
      ELSE FmtFixed(result, decimalPlaces) \o <<" ", unit>>

FormatResult(result, unit) ==
  LET absResult == FAbs(result)
      decimalPlaces ==
        IF FGe(absResult, FromInt(1000)) THEN 0
        ELSE IF FGe(absResult, FromInt(100)) THEN 1
        ELSE IF FGe(absResult, FromInt(10)) THEN 2
        ELSE IF FGe(absResult, FromInt(1)) THEN 3
        ELSE 4
  IN  IF FLt(absResult, Float64(Lit(<<1>>, 3)))
           \/ FGt(absResult, FromInt(1000000))
      THEN FmtSci(result, 6) \o <<" ", unit>>
      ELSE FmtFixed(result, decimalPlaces) \o <<" ", unit>>

\* a response whose body is the JSON of a ConversionResult with Success false
\* and Error msg (the other fields are empty and omitted)
JsonError(code, msg) ==
  [status |-> code, json |-> TRUE, success |-> FALSE, error |-> msg, text |-> <<>>]

\* a response of status 200 (no WriteHeader call) whose body is the text t
TextOK(t) ==
  [status |-> 200, json |-> FALSE, success |-> TRUE, error |-> <<>>, text |-> t]

\* convertHandler without its check of the error Convert returned
ConvertReplyUnchecked(conv, toUnit) ==
  TextOK(FmtFixed(conv.val, 3) \o <<" ", toUnit>>)

\* convertHandler once Convert has returned conv
ConvertReply(conv, toUnit) ==
  IF conv.err # Nil
  THEN JsonError(400, conv.err)
  ELSE TextOK(FmtFixed(conv.val, 3) \o <<" ", toUnit>>)

\* convertHandler once ParseFloat has returned parsed
ConvertParsed(c, fused, parsed, fromUnit, toUnit) ==
  IF parsed.err # Nil
  THEN JsonError(400, <<"Invalid value: must be a number">>)
  ELSE ConvertReply(Convert(c, fused, parsed.val, fromUnit, toUnit), toUnit)

\* convertHandler on request r: its method, whether ParseForm fails on it
\* (r.malformed), and its form values, empty for a field that is absent
ConvertHandler(c, fused, r) ==
  LET valueStr == r.value
      fromUnit == r.from
      toUnit == r.to
  IN  IF r.method # "POST"
      THEN JsonError(405, <<"Method not allowed. Please use POST.">>)
      ELSE IF r.malformed
      THEN JsonError(400, <<"Error parsing form data">>)
      ELSE IF valueStr = <<>> \/ fromUnit = "" \/ toUnit = ""
      THEN JsonError(400, <<"All fields (value, from, to) are required">>)
      ELSE ConvertParsed(c, fused, ParseFloat(valueStr), fromUnit, toUnit)

(***************************************************************************)
(* The query helpers.  Go visits the keys of a map in an order of its own: *)
(* the model walks the keys in a fixed order, the order of main.go, from a *)
(* starting point that the runtime picks.                                  *)
(***************************************************************************)
\* the symbols of the registry, in the order of main.go
SymbolOrder ==
  <<"mg", "g", "kg", "t", "oz", "lb", "nm", "µm", "mm", "cm", "m", "km",
    "in", "ft", "yd", "mi", "C", "F", "K", "Ra", "ns", "µs", "ms", "s",
    "min", "h", "day", "week", "year", "Hz", "kHz", "MHz", "GHz", "THz",
    "m/s", "km/h", "ft/s", "mph", "knot", "mach", "m³", "L", "gal",
    "fl_oz", "m²", "acre", "ha", "J", "cal", "kcal", "W", "HP", "N", "lbf",
    "Pa", "atm", "bar", "B", "bit", "KB", "MB", "GB", "rad", "deg",
    "arcmin", "arcsec">>

\* the dimension tags, in the order of main.go
DimensionOrder ==
  <<"mass", "length", "temperature", "time", "frequency", "speed",
    "volume", "area", "energy", "power", "force", "pressure",
    "data_storage", "angle">>

\* the sequence q walked from its element after the first start ones, and
\* around
Rotate(q, start) ==
  [i \in 1..Len(q) |-> q[((i - 1 + start) % Len(q)) + 1]]

\* for ... range m: the keys of a map, of those order lists, as one range
\* loop visits them
RangeKeys(keys, order, start) ==
  IF keys = {} THEN <<>>
  ELSE Rotate(SelectSeq(order, LAMBDA k : k \in keys), start)

\* the reference of the map uc.units
RegistryRef == <<0, "units">>

\* GetUnitsByDimension filtering uc.units in place: it deletes the units of
\* the other dimensions from the registry, and returns the registry
GetUnitsByDimensionInPlace(c, fresh, dimension) ==
  [ref |-> RegistryRef,
   map |-> [symbol \in {sym \in DOMAIN c.units :
                          c.units[sym].Dimension = dimension}
              |-> c.units[symbol]],
   units |-> [symbol \in {sym \in DOMAIN c.units :
                            c.units[sym].Dimension = dimension}
                |-> c.units[symbol]]]

\* GetUnitsByDimension: the map result, made at the reference fresh, and the
\* registry as the call leaves it
GetUnitsByDimension(c, fresh, dimension) ==
  [ref |-> fresh,
   map |-> [symbol \in {sym \in DOMAIN c.units :
                          c.units[sym].Dimension = dimension}
              |-> c.units[symbol]],
   units |-> c.units]

\* the keys of dimensionMap
DimensionMap(c) == {c.units[sym].Dimension : sym \in DOMAIN c.units}

\* GetAllDimensions appending the dimension of every unit, without the map
\* that keeps one of each
GetAllDimensionsPerUnit(c, start) ==
  [k \in 1..Len(RangeKeys(DOMAIN c.units, SymbolOrder, start)) |->
     c.units[RangeKeys(DOMAIN c.units, SymbolOrder, start)[k]].Dimension]

\* GetAllDimensions: the keys of dimensionMap, as the second loop visits them
GetAllDimensions(c, start) ==
  RangeKeys(DimensionMap(c), DimensionOrder, start)

GetDimensionName(dimension) ==
  CASE dimension = "volume" -> "Volume"
    [] dimension = "area" -> "Area"
    [] dimension = "energy" -> "Energy"
    [] dimension = "power" -> "Power"
    [] dimension = "force" -> "Force"
    [] dimension = "pressure" -> "Pressure"
    [] dimension = "data_storage" -> "Data Storage"
    [] dimension = "angle" -> "Angle"
    [] dimension = "mass" -> "Mass"
    [] dimension = "length" -> "Length"
    [] dimension = "temperature" -> "Temperature"
    [] dimension = "time" -> "Time"
    [] dimension = "frequency" -> "Frequency"
    [] dimension = "speed" -> "Speed"
    [] OTHER -> dimension

(***************************************************************************)
(* The other handlers.  A response is its status, the kind of its body     *)
(* ("text" for http.Error and http.NotFound, "json", "page" for the        *)
(* rendered template, "partial" for a page cut short) and the body.        *)
(***************************************************************************)
\* http.Error(w, msg, code), msg being the sequence of its parts
HttpError(code, msg) == [status |-> code, kind |-> "text", body |-> msg]

\* the map at a reference
Deref(c, h, ref) == IF ref = RegistryRef THEN c.units ELSE h[ref]

\* the heap once the map of a call of GetUnitsByDimension is in it
Store(h, out) ==
  IF out.ref = RegistryRef THEN h ELSE (out.ref :> out.map) @@ h

\* homeHandler's unitsByDimension[dim] = out, for acc the registry, the map
\* unitsByDimension and the heap so far
Collected(acc, dim, out) ==
  [units |-> out.units,
   byDim |-> (dim :> out.ref) @@ acc.byDim,
   heap |-> Store(acc.heap, out)]

\* homeHandler's first loop, lines 282-285, over dims[lo..hi], by the handler
\* of slot i: the range is split in halves and the first half is evaluated
\* before the second, which starts from its result
RECURSIVE CollectRange(_, _, _, _, _)
CollectRange(acc, i, dims, lo, hi) ==
  IF lo > hi THEN acc
  ELSE IF lo = hi
  THEN Collected(acc, dims[lo],
                 GetUnitsByDimension([units |-> acc.units],
                                     <<i, dims[lo]>>, dims[lo]))
  ELSE LET mid == (lo + hi) \div 2
           l == CollectRange(acc, i, dims, lo, mid)
       IN  First(l, CollectRange(l, i, dims, mid + 1, hi))

\* homeHandler's first loop over the dimensions dims, by the handler of
\* slot i
CollectUnits(acc, i, dims) == CollectRange(acc, i, dims, 1, Len(dims))

\* homeHandler's second loop and TemplateData
TemplateData(byDim, names, dimensions, year) ==
  [Units |-> byDim,
   Dimensions |-> dimensions,
   DimensionNames |-> [dim \in names |-> GetDimensionName(dim)],
   CurrentYear |-> year]

\* the symbols of the registry as text/template sorts the keys of a map
SortedSymbols ==
  <<"B", "C", "F", "GB", "GHz", "HP", "Hz", "J", "K", "KB", "L", "MB",
    "MHz", "N", "Pa", "Ra", "THz", "W", "acre", "arcmin", "arcsec", "atm",
    "bar", "bit", "cal", "cm", "day", "deg", "fl_oz", "ft", "ft/s", "g",
    "gal", "h", "ha", "in", "kHz", "kcal", "kg", "km", "km/h", "knot",
    "lb", "lbf", "m", "m/s", "mach", "mg", "mi", "min", "mm", "mph", "ms",
    "m²", "m³", "nm", "ns", "oz", "rad", "s", "t", "week", "yd", "year",
    "µm", "µs">>

\* index.html, line 40: the options of the dimension selector
DimensionOptions(data) ==
  [k \in 1..Len(data.Dimensions) |->
     [value |-> data.Dimensions[k],
      text |-> data.DimensionNames[data.Dimensions[k]]]]

\* index.html, lines 127-129: the units of one dimension, by sorted symbol
UnitEntries(units) ==
  LET symbols == SelectSeq(SortedSymbols, LAMBDA sym : sym \in DOMAIN units)
  IN  [k \in 1..Len(symbols) |->
         [symbol |-> symbols[k], name |-> units[symbols[k]].Name]]

\* index.html executed on data: the dimension options and the script's
\* unitsByDimension
RenderPage(c, h, data) ==
  [options |-> DimensionOptions(data),
   unitsByDimension |->
     [dim \in DOMAIN data.Units |-> UnitEntries(Deref(c, h, data.Units[dim]))],
   year |-> data.CurrentYear]

(***************************************************************************)
(* The state.                                                              *)
(*   uc      the converter main builds once and hands to every handler     *)
(*   fused   the build: whether the compiler fuses x*y + z                 *)
(*   call    a call of Convert or FormatResult under test, with its        *)
(*           arguments                                                     *)
(*   ret     what the call returned                                        *)
(*   back    what Convert returned for the conversion back                 *)
(*   req     the request the server holds                                  *)
(*   resp    its response                                                  *)
(*   served  the number of requests answered                               *)
(*   slots   the requests the server is answering concurrently, each with  *)
(*           the position of its handler and the handler's local variables *)
(*   heap    the maps GetUnitsByDimension has made, by reference           *)
(*   page    the page in a browser: its selectors and their options        *)
(*   logged  what the handler that answered last wrote to the log          *)
(***************************************************************************)
VARIABLES uc, fused, call, ret, back, req, resp, served, slots, heap, page,
          logged

vars ==
  <<uc, fused, call, ret, back, req, resp, served, slots, heap, page, logged>>

NoCall == [fn |-> "none"]

NoRet == [done |-> FALSE]

NoReq == [path |-> "none"]

NoResp == [status |-> 0]

\* no request is being answered
NoSlots == <<>>

\* no map has been made
NoHeap == <<>>

NoPage == [loaded |-> FALSE]

Returned(r) == [done |-> TRUE, val |-> r.val, err |-> r.err]

(***************************************************************************)
(* The inputs.                                                             *)
(***************************************************************************)
\* the finest value submitted is 10^-MaxDecimals
MaxDecimals == 13

\* the largest value submitted is 10^MaxExponent
MaxExponent == 300

\* the server answers at most MaxRequests requests
MaxRequests == 1

ConvertValues ==
  {Float64(x) : x \in {Lit(<<m>>, k) : m \in {1, 32}, k \in {0, MaxDecimals}}
                        \cup {Lit(<<m>>, 0) : m \in {0, 10, 100, 1000}}
                        \cup {Lit(<<425>>, 1), Lit(<<1>>, -MaxExponent)}}
    \cup {FNeg(FromInt(40)), NaN, Inf(0)}

ConvertSymbols == {"kg", "g", "km", "m", "C", "F", "K", "ns", "year", "unknown"}

FormatMantissas == {0, 1, 5, 425, 9995, 1000000, 1000001, 1500000}

\* the values formatted have up to FormatDecimals digits after the point
FormatDecimals == 7

FormatMagnitudes ==
  {Float64(Lit(<<m>>, k)) : m \in FormatMantissas, k \in 0..FormatDecimals}

FormatValues ==
  FormatMagnitudes \cup {FNeg(v) : v \in FormatMagnitudes}
    \cup {NaN, Inf(0), Inf(1)}

FormatUnits == {"m", "kg"}

FormValues ==
  {<<>>, <<"1", "0">>, <<"a", "b", "c">>, <<"N", "a", "N">>,
   <<"1", "e", "3", "0", "0">>, <<"1", "e", "9", "9", "9">>,
   <<"0", ".", "0", "0", "0", "5">>, <<"-", "4", "0">>,
   <<"1", "5", "0", "0", "0", "0", "0">>}

FormSymbols == {"", "kg", "g", "F", "C", "unknown"}

ConvertRequests ==
  {[path |-> "/convert", method |-> m, malformed |-> e,
    value |-> v, from |-> f, to |-> t] :
     m \in {"POST", "GET"}, e \in BOOLEAN, v \in FormValues,
     f \in FormSymbols, t \in FormSymbols}

(***************************************************************************)
(* Convert as a function: a call, and the conversion back of its result.   *)
(***************************************************************************)
InitConvert ==
  /\ uc = NewUnitConverter
  /\ fused \in BOOLEAN
  /\ call \in {[fn |-> "Convert", value |-> v, from |-> f, to |-> t] :
                 v \in ConvertValues, f \in ConvertSymbols, t \in ConvertSymbols}
  /\ ret = NoRet
  /\ back = NoRet
  /\ req = NoReq
  /\ resp = NoResp
  /\ served = 0
  /\ slots = NoSlots
  /\ heap = NoHeap
  /\ page = NoPage
  /\ logged = <<>>

CallConvert ==
  /\ call.fn = "Convert"
  /\ ~ret.done
  /\ ret' = Returned(Convert(uc, fused, call.value, call.from, call.to))
  /\ UNCHANGED <<uc, fused, call, back, req, resp, served, slots, heap, page,
                 logged>>

CallConvertBack ==
  /\ call.fn = "Convert"
  /\ ret.done
  /\ ret.err = Nil
  /\ ~back.done
  /\ back' = Returned(Convert(uc, fused, ret.val, call.to, call.from))
  /\ UNCHANGED <<uc, fused, call, ret, req, resp, served, slots, heap, page,
                 logged>>

NextConvert == CallConvert \/ CallConvertBack

SpecConvert == InitConvert /\ [][NextConvert]_vars

(***************************************************************************)
(* FormatResult as a function.                                             *)
(***************************************************************************)
InitFormat ==
  /\ uc = NewUnitConverter
  /\ fused = FALSE
  /\ call \in {[fn |-> "FormatResult", result |-> v, unit |-> u] :
                 v \in FormatValues, u \in FormatUnits}
  /\ ret = NoRet
  /\ back = NoRet
  /\ req = NoReq
  /\ resp = NoResp
  /\ served = 0
  /\ slots = NoSlots
  /\ heap = NoHeap
  /\ page = NoPage
  /\ logged = <<>>

CallFormatResult ==
  /\ call.fn = "FormatResult"
  /\ ~ret.done
  /\ ret' = [done |-> TRUE, str |-> FormatResult(call.result, call.unit)]
  /\ UNCHANGED <<uc, fused, call, back, req, resp, served, slots, heap, page,
                 logged>>

NextFormat == CallFormatResult

SpecFormat == InitFormat /\ [][NextFormat]_vars

(***************************************************************************)
(* The server.                                                             *)
(***************************************************************************)
Init ==
  /\ uc = NewUnitConverter
  /\ fused \in BOOLEAN
  /\ call = NoCall
  /\ ret = NoRet
  /\ back = NoRet
  /\ req = NoReq
  /\ resp = NoResp
  /\ served = 0
  /\ slots = NoSlots
  /\ heap = NoHeap
  /\ page = NoPage
  /\ logged = <<>>

\* a client sends a request
Receive ==
  /\ served < MaxRequests
  /\ req.path = "none" \/ resp.status # 0
  /\ req' \in ConvertRequests
  /\ resp' = NoResp
  /\ UNCHANGED <<uc, fused, call, ret, back, served, slots, heap, page,
                 logged>>

\* convertHandler answers it
ServeConvert ==
  /\ req.path = "/convert"
  /\ resp.status = 0
  /\ resp' = ConvertHandler(uc, fused, req)
  /\ served' = served + 1
  /\ UNCHANGED <<uc, fused, call, ret, back, req, slots, heap, page, logged>>

Next == Receive \/ ServeConvert

Spec == Init /\ [][Next]_vars

(***************************************************************************)
(* The server answering requests concurrently: every request has a         *)
(* goroutine of its own, and the handlers share the converter.             *)
(***************************************************************************)
\* the server answers up to MaxClients requests at a time
MaxClients == 2

Clients == 1..MaxClients

\* a range loop starts at any of the first MaxStart + 1 keys
MaxStart == 2

Starts == 0..MaxStart

\* time.Now().Year()
Years == {2026}

\* what template.ParseFiles reports when it fails
LoadErrors ==
  {"open templates/index.html: no such file or directory",
   "open templates/index.html: permission denied"}

\* what Template.Execute reports when it fails
RenderErrors ==
  {"html/template:index.html:40: no such template",
   "write tcp 127.0.0.1:8080->127.0.0.1:50000: write: broken pipe"}

Request(path, method, arg, value, from, to) ==
  [path |-> path, method |-> method, malformed |-> FALSE, arg |-> arg,
   value |-> value, from |-> from, to |-> to]

ServerRequests ==
  {Request(path, "GET", "", <<>>, "", "") : path \in {"/", "/missing"}}
    \cup {Request("/unit-info", "GET", arg, <<>>, "", "") :
            arg \in {"", "kg", "unknown"}}
    \cup {Request("/units-by-dimension", "GET", arg, <<>>, "", "") :
            arg \in {"", "mass", "unknown"}}
    \cup {Request("/convert", "POST", "", <<"1", "0">>, "kg", to) :
            to \in {"g", "unknown"}}
    \cup {Request("/convert", "GET", "", <<>>, "", "")}

Idle == [pc |-> "idle", req |-> NoReq, data |-> <<>>]

\* the handler main registers for a path (lines 448-451)
Route(path) ==
  IF path \in {"/convert", "/unit-info", "/units-by-dimension"}
  THEN path ELSE "/"

Elements(q) == {q[k] : k \in 1..Len(q)}

\* the heap without the maps the handler of slot i made
Release(h, i) == [ref \in {x \in DOMAIN h : x[1] # i} |-> h[ref]]

InitServer ==
  /\ uc = NewUnitConverter
  /\ fused \in BOOLEAN
  /\ call = NoCall
  /\ ret = NoRet
  /\ back = NoRet
  /\ req = NoReq
  /\ resp = NoResp
  /\ served = 0
  /\ slots = [i \in Clients |-> Idle]
  /\ heap = NoHeap
  /\ page = NoPage
  /\ logged = <<>>

\* a request r for the handler of path arrives, and slot i is free
Accepts(i, r, path) ==
  /\ slots[i].pc = "idle"
  /\ Route(r.path) = path

\* the handler of slot i goes on at pc, with the local variables data
Run(i, r, pc, data) ==
  /\ slots' = [slots EXCEPT ![i] = [pc |-> pc, req |-> r, data |-> data]]
  /\ UNCHANGED <<req, resp, logged>>

\* the handler of slot i returns: request r has the response rsp, and the
\* handler has written line to the log (<<>> for nothing)
Reply(i, r, rsp, line) ==
  /\ slots' = [slots EXCEPT ![i] = Idle]
  /\ req' = r
  /\ resp' = rsp
  /\ logged' = line

Answer(i, r, rsp) == Reply(i, r, rsp, <<>>)

\* lines 286-298, after the first loop has left acc
HomeData(i, r, acc) ==
  \E s2 \in Starts, s3 \in Starts, year \in Years :
    /\ uc' = [units |-> acc.units]
    /\ heap' = acc.heap
    /\ Run(i, r, "collected",
           TemplateData(acc.byDim,
                        Elements(GetAllDimensions([units |-> acc.units], s2)),
                        GetAllDimensions([units |-> acc.units], s3),
                        year))

\* homeHandler, lines 275-298: the path check, then the template data
HomeCollect(i) ==
  /\ \E r \in ServerRequests :
       /\ Accepts(i, r, "/")
       /\ IF r.path # "/"
          THEN /\ Answer(i, r, HttpError(404, <<"404 page not found">>))
               /\ UNCHANGED <<uc, heap>>
          ELSE \E s1 \in Starts :
                 HomeData(i, r,
                          CollectUnits([units |-> uc.units, byDim |-> <<>>,
                                        heap |-> heap],
                                       i, GetAllDimensions(uc, s1)))
  /\ UNCHANGED <<fused, call, ret, back, served, page>>

\* homeHandler, lines 300-311: the template is loaded and executed
HomeRender(i) ==
  /\ slots[i].pc = "collected"
  /\ \/ \E detail \in LoadErrors :
          \* ParseFiles fails
          Reply(i, slots[i].req,
                HttpError(500, <<"Error loading template: ", detail>>),
                <<"Error loading template: ", detail>>)
     \/ \* Execute succeeds
        Answer(i, slots[i].req,
               [status |-> 200, kind |-> "page",
                body |-> RenderPage(uc, heap, slots[i].data)])
     \/ \E detail \in RenderErrors :
          \* Execute fails before it has written anything
          Reply(i, slots[i].req,
                HttpError(500, <<"Error rendering template">>),
                <<"Error rendering template: ", detail>>)
     \/ \E detail \in RenderErrors :
          \* Execute fails after it has written a part of the page: the
          \* status 200 has gone out, and the message follows the part
          Reply(i, slots[i].req,
                [status |-> 200, kind |-> "partial",
                 body |-> <<"Error rendering template">>],
                <<"Error rendering template: ", detail>>)
  /\ heap' = Release(heap, i)
  /\ UNCHANGED <<uc, fused, call, ret, back, served, page>>

\* unitInfoHandler
UnitInfoHandler(c, r) ==
  LET unitSymbol == r.arg
  IN  IF unitSymbol = ""
      THEN HttpError(400, <<"Unit symbol is required">>)
      ELSE IF unitSymbol \notin DOMAIN c.units
      THEN HttpError(400, <<"Invalid unit symbol">>)
      ELSE [status |-> 200, kind |-> "json",
            body |-> [symbol |-> unitSymbol,
                      name |-> c.units[unitSymbol].Name,
                      dimension |-> c.units[unitSymbol].Dimension,
                      factor |-> c.units[unitSymbol].Factor]]

ServeUnitInfo(i) ==
  /\ \E r \in ServerRequests :
       /\ Accepts(i, r, "/unit-info")
       /\ Answer(i, r, UnitInfoHandler(uc, r))
  /\ UNCHANGED <<uc, fused, call, ret, back, served, heap, page>>

\* lines 349: the units of the dimension are asked for; out is what
\* GetUnitsByDimension returns
UnitsQueried(i, r, out) ==
  /\ uc' = [units |-> out.units]
  /\ heap' = Store(heap, out)
  /\ Run(i, r, "queried", [units |-> out.ref])

\* unitsByDimensionHandler, lines 343-349
UnitsByDimensionQuery(i) ==
  /\ \E r \in ServerRequests :
       /\ Accepts(i, r, "/units-by-dimension")
       /\ IF r.arg = ""
          THEN /\ Answer(i, r, HttpError(400, <<"Dimension is required">>))
               /\ UNCHANGED <<uc, heap>>
          ELSE UnitsQueried(i, r,
                            GetUnitsByDimension(uc, <<i, r.arg>>, r.arg))
  /\ UNCHANGED <<fused, call, ret, back, served, page>>

\* lines 361-367: a UnitInfo for every unit of the map, as the loop visits
\* them
UnitInfos(units, start) ==
  LET symbols == RangeKeys(DOMAIN units, SymbolOrder, start)
  IN  [k \in 1..Len(symbols) |->
         [Symbol |-> symbols[k], Name |-> units[symbols[k]].Name]]

\* unitsByDimensionHandler, lines 350-370
UnitsByDimensionReply(i) ==
  /\ slots[i].pc = "queried"
  /\ IF DOMAIN Deref(uc, heap, slots[i].data.units) = {}
     THEN Answer(i, slots[i].req, HttpError(400, <<"Invalid dimension">>))
     ELSE \E start \in Starts :
            Answer(i, slots[i].req,
                   [status |-> 200, kind |-> "json",
                    body |-> UnitInfos(Deref(uc, heap, slots[i].data.units),
                                       start)])
  /\ heap' = Release(heap, i)
  /\ UNCHANGED <<uc, fused, call, ret, back, served, page>>

\* convertHandler
ServeConvertSlot(i) ==
  /\ \E r \in ServerRequests :
       /\ Accepts(i, r, "/convert")
       /\ Answer(i, r, ConvertHandler(uc, fused, r))
  /\ UNCHANGED <<uc, fused, call, ret, back, served, heap, page>>

NextServer ==
  \E i \in Clients :
    \/ HomeCollect(i)
    \/ HomeRender(i)
    \/ ServeUnitInfo(i)
    \/ UnitsByDimensionQuery(i)
    \/ UnitsByDimensionReply(i)
    \/ ServeConvertSlot(i)

SpecServer == InitServer /\ [][NextServer]_vars

(***************************************************************************)
(* The page, templates/index.html in a browser.  A selector is its options *)
(* (their values) and its selectedIndex, -1 when no option is selected.    *)
(* The script's strings are those the template was executed on: what       *)
(* html/template escapes, the browser reads back.                          *)
(***************************************************************************)
\* select.value
ValueOf(options, index) ==
  IF index >= 0 /\ index < Len(options) THEN options[index + 1] ELSE ""

\* select.value = v: the first option of that value is selected, or none
IndexOf(options, v) ==
  IF \E k \in 1..Len(options) : options[k] = v
  THEN (CHOOSE k \in 1..Len(options) :
          options[k] = v /\ \A j \in 1..(k - 1) : options[j] # v) - 1
  ELSE -1

\* the options populateUnitSelectors appends for units
SymbolsOf(units) == [k \in 1..Len(units) |-> units[k].symbol]

\* populateUnitSelectors(dimension), lines 135-163
PopulateUnitSelectors(p, dimension) ==
  IF dimension \in DOMAIN p.unitsByDimension
  THEN [p EXCEPT
          !.fromOptions = SymbolsOf(p.unitsByDimension[dimension]),
          !.toOptions = SymbolsOf(p.unitsByDimension[dimension]),
          !.fromIndex = IF p.unitsByDimension[dimension] = <<>> THEN -1 ELSE 0,
          !.toIndex = IF Len(p.unitsByDimension[dimension]) > 1 THEN 1
                      ELSE IF p.unitsByDimension[dimension] = <<>> THEN -1
                      ELSE 0]
  ELSE [p EXCEPT !.fromOptions = <<>>, !.toOptions = <<>>,
                 !.fromIndex = -1, !.toIndex = -1]

\* the click handler of the switch button without its temp: to.value is
\* set from from.value once that has been overwritten
SwitchNoTemp(p) ==
  [p EXCEPT !.fromIndex = IndexOf(p.fromOptions,
                                  ValueOf(p.toOptions, p.toIndex)),
            !.toIndex = p.toIndex]

\* the click handler of the switch button, lines 175-181
Switch(p) ==
  LET temp == ValueOf(p.fromOptions, p.fromIndex)
  IN  [p EXCEPT !.fromIndex = IndexOf(p.fromOptions,
                                      ValueOf(p.toOptions, p.toIndex)),
                !.toIndex = IndexOf(p.toOptions, temp)]

\* the document the browser builds from a rendered page: the dimension
\* selector shows its first option, the unit selectors have no option yet
Document(rendered) ==
  [loaded |-> FALSE,
   options |-> rendered.options,
   unitsByDimension |-> rendered.unitsByDimension,
   dimension |-> IF rendered.options = <<>> THEN ""
                 ELSE rendered.options[1].value,
   fromOptions |-> <<>>, toOptions |-> <<>>,
   fromIndex |-> -1, toIndex |-> -1]

\* what homeHandler renders for the converter c when GetAllDimensions gives
\* the dimensions from the start-th on
HomePage(c, acc, start, year) ==
  RenderPage(c, acc.heap,
             TemplateData(acc.byDim, Elements(GetAllDimensions(c, start)),
                          GetAllDimensions(c, start), year))

\* the texts typed into the value field
TypedValues == {<<"1", "0">>, <<"-", "4", "0">>}

InitPage ==
  /\ uc = NewUnitConverter
  /\ fused = FALSE
  /\ call = NoCall
  /\ ret = NoRet
  /\ back = NoRet
  /\ req = NoReq
  /\ resp = NoResp
  /\ served = 0
  /\ slots = NoSlots
  /\ heap = NoHeap
  /\ logged = <<>>
  /\ \E start \in Starts, year \in Years :
       page = Document(HomePage(uc,
                                CollectUnits([units |-> uc.units,
                                              byDim |-> <<>>, heap |-> <<>>],
                                             1, GetAllDimensions(uc, start)),
                                start, year))

\* the script runs, lines 165-172
PageLoad ==
  /\ ~page.loaded
  /\ page' = [PopulateUnitSelectors(page, page.dimension)
                EXCEPT !.loaded = TRUE]
  /\ UNCHANGED <<uc, fused, call, ret, back, req, resp, served, slots, heap,
                 logged>>

\* the user picks another dimension: the change listener, lines 170-172
ChangeDimension ==
  /\ page.loaded
  /\ \E k \in 1..Len(page.options) :
       /\ page.options[k].value # page.dimension
       /\ page' = PopulateUnitSelectors(
                    [page EXCEPT !.dimension = page.options[k].value],
                    page.options[k].value)
  /\ req' = NoReq
  /\ UNCHANGED <<uc, fused, call, ret, back, resp, served, slots, heap,
                 logged>>

\* the user clicks the switch button
SwitchClick ==
  /\ page.loaded
  /\ page' = Switch(page)
  /\ req' = NoReq
  /\ UNCHANGED <<uc, fused, call, ret, back, resp, served, slots, heap,
                 logged>>

\* the user picks a unit in the from selector
SelectFrom ==
  /\ page.loaded
  /\ \E k \in 0..(Len(page.fromOptions) - 1) :
       /\ k # page.fromIndex
       /\ page' = [page EXCEPT !.fromIndex = k]
  /\ req' = NoReq
  /\ UNCHANGED <<uc, fused, call, ret, back, resp, served, slots, heap,
                 logged>>

\* the user picks a unit in the to selector
SelectTo ==
  /\ page.loaded
  /\ \E k \in 0..(Len(page.toOptions) - 1) :
       /\ k # page.toIndex
       /\ page' = [page EXCEPT !.toIndex = k]
  /\ req' = NoReq
  /\ UNCHANGED <<uc, fused, call, ret, back, resp, served, slots, heap,
                 logged>>

\* the user submits the form: req is the request the page has just sent
\* (hx-post="/convert", lines 45-48), until the user touches the form again
Submit ==
  /\ page.loaded
  /\ req = NoReq
  /\ \E value \in TypedValues :
       req' = Request("/convert", "POST", "", value,
                      ValueOf(page.fromOptions, page.fromIndex),
                      ValueOf(page.toOptions, page.toIndex))
  /\ UNCHANGED <<uc, fused, call, ret, back, resp, served, slots, heap, page,
                 logged>>

NextPage ==
  \/ PageLoad
  \/ ChangeDimension
  \/ SwitchClick
  \/ SelectFrom
  \/ SelectTo
  \/ Submit

SpecPage == InitPage /\ [][NextPage]_vars

(***************************************************************************)
(* The properties.  Tolerances are compared exactly: a finite float64 is a *)
(* fraction, and the comparisons below are on natural numbers.             *)
(***************************************************************************)
\* |a - b| for finite a and b: the natural number n and the exponent x of
\* n * 2^x
AbsDiff(a, b) ==
  LET lo == Min(a.e, b.e)
  IN  [n |-> SignedSum(a.s, Shl(a.m, a.e - lo), 1 - b.s, Shl(b.m, b.e - lo)).n,
       x |-> lo]

\* n1 * 2^x1 <= n2 * 2^x2
LeScaled(n1, x1, n2, x2) ==
  Cmp(Shl(n1, x1 - Min(x1, x2)), Shl(n2, x2 - Min(x1, x2))) <= 0

\* |a - b| <= |v| / 10^k, for finite a, b and v
WithinRel(a, b, v, k) ==
  LeScaled(Mul(AbsDiff(a, b).n, Pow10(k)), AbsDiff(a, b).x, v.m, v.e)

\* |a - b| <= 1 / 10^k, for finite a and b
WithinAbs(a, b, k) ==
  LeScaled(Mul(AbsDiff(a, b).n, Pow10(k)), AbsDiff(a, b).x, <<1>>, 0)

DimensionOf(sym) == UnitLiterals[sym].Dimension

\* two registered units of one dimension
SameDimension(a, b) ==
  /\ a \in RegisteredSymbols
  /\ b \in RegisteredSymbols
  /\ DimensionOf(a) = DimensionOf(b)

\* a call Convert(v, from, to) of the decimal constant v
IsCall(v, from, to) ==
  /\ call.fn = "Convert"
  /\ call.value = Float64(v)
  /\ call.from = from
  /\ call.to = to

\* C1: round trip.  For every two registered units A and B of one dimension
\* and every (finite) value v, Convert(v, A, B) succeeds, the conversion back
\* Convert(Convert(v, A, B), B, A) succeeds, and its result differs from v by
\* at most 1e-9 * |v|.
C1_RoundTrip ==
  (/\ call.fn = "Convert"
   /\ SameDimension(call.from, call.to)
   /\ IsFinite(call.value))
    => /\ ret.done => ret.err = Nil
       /\ back.done =>
            /\ back.err = Nil
            /\ IsFinite(back.val)
            /\ WithinRel(back.val, call.value, call.value, 9)

\* C2: identity.  For every registered unit A and every (finite) value v,
\* Convert(v, A, A) succeeds and returns exactly v.
C2_Identity ==
  (/\ call.fn = "Convert"
   /\ ret.done
   /\ call.from \in RegisteredSymbols
   /\ call.to = call.from
   /\ IsFinite(call.value))
    => /\ ret.err = Nil
       /\ FEq(ret.val, call.value)

\* C3: for every two registered units A and B of different dimensions and
\* every value v, Convert(v, A, B) fails with the dimension-mismatch error,
\* which names both units and both dimensions, and returns the value 0: no
\* pair of units of different dimensions yields a result.
C3_DimensionMismatch ==
  (/\ call.fn = "Convert"
   /\ ret.done
   /\ call.from \in RegisteredSymbols
   /\ call.to \in RegisteredSymbols
   /\ DimensionOf(call.from) # DimensionOf(call.to))
    => /\ ret.err = <<"cannot convert between different dimensions: ",
                      call.from, " (", DimensionOf(call.from), ") and ",
                      call.to, " (", DimensionOf(call.to), ")">>
       /\ ret.val = Zero(0)

\* Convert("kg" to "m") has returned the dimension-mismatch error
C3_Witness ==
  /\ call.fn = "Convert"
  /\ ret.done
  /\ call.from = "kg"
  /\ call.to = "m"
  /\ ret.err # Nil
  /\ ret.err[1] = "cannot convert between different dimensions: "

\* C4: Convert(v, from, to) fails with the invalid-source-unit error whenever
\* from is not registered, whatever to is, and with the invalid-target-unit
\* error whenever from is registered and to is not; either way it returns the
\* value 0, so that an unregistered symbol never yields the
\* dimension-mismatch error or a result.
C4_SymbolResolution ==
  (call.fn = "Convert" /\ ret.done)
    => /\ call.from \notin RegisteredSymbols
            => ret.err = <<"invalid source unit: ", call.from>>
                 /\ ret.val = Zero(0)
       /\ (call.from \in RegisteredSymbols /\ call.to \notin RegisteredSymbols)
            => ret.err = <<"invalid target unit: ", call.to>>
                 /\ ret.val = Zero(0)

\* Convert from an unregistered unit to an unregistered unit has returned
C4_Witness ==
  /\ call.fn = "Convert"
  /\ ret.done
  /\ call.from \notin RegisteredSymbols
  /\ call.to \notin RegisteredSymbols
  /\ ret.err # Nil

\* C5: the temperature anchors.  Convert(0, "C", "K") returns exactly 273.15,
\* Convert(32, "F", "C") returns 0 within 1e-9, and Convert(100, "C", "F")
\* returns 212 within 1e-9.
C5_TemperatureAnchors ==
  ret.done
    => /\ IsCall(Lit(<<0>>, 0), "C", "K")
            => ret.err = Nil /\ FEq(ret.val, Float64(Lit(<<27315>>, 2)))
       /\ IsCall(Lit(<<32>>, 0), "F", "C")
            => ret.err = Nil /\ IsFinite(ret.val)
                 /\ WithinAbs(ret.val, Zero(0), 9)
       /\ IsCall(Lit(<<100>>, 0), "C", "F")
            => ret.err = Nil /\ IsFinite(ret.val)
                 /\ WithinAbs(ret.val, FromInt(212), 9)

\* the reference value of a conversion between two registered units of one
\* dimension, in float64
ReferenceValue(value, from, to) ==
  IF DimensionOf(from) = "temperature"
  THEN FDiv(FSub(MulAdd(fused, value, uc.units[from].Factor,
                        uc.units[from].Offset),
                 uc.units[to].Offset),
            uc.units[to].Factor)
  ELSE FDiv(FMul(value, uc.units[from].Factor), uc.units[to].Factor)

\* r is v rounded to the nearest multiple of 10^-12, as far as float64 tells
\* them apart: r is finite and differs from v by 10^-12 at most, or by
\* |v| / 2^50 at most
IsRounded(r, v) ==
  /\ IsFinite(r)
  /\ \/ WithinAbs(r, v, 12)
     \/ LeScaled(AbsDiff(r, v).n, AbsDiff(r, v).x + 50, v.m, v.e)

\* C6: for every two registered units of one dimension and every value, the
\* result of Convert is the reference value rounded to the nearest multiple
\* of 10^-12, the reference value being
\* (value * fromFactor + fromOffset - toOffset) / toFactor for temperatures
\* and value * fromFactor / toFactor for every other dimension;
\* Convert(1, "km", "m") is 1000 and Convert(1000, "g", "kg") is 1.
C6_RoundedReference ==
  (/\ call.fn = "Convert"
   /\ ret.done
   /\ SameDimension(call.from, call.to))
    => /\ ret.err = Nil
       /\ IsFinite(ReferenceValue(call.value, call.from, call.to))
            => IsRounded(ret.val, ReferenceValue(call.value, call.from, call.to))
       /\ IsCall(Lit(<<1>>, 0), "km", "m") => ret.val = FromInt(1000)
       /\ IsCall(Lit(<<1000>>, 0), "g", "kg") => ret.val = FromInt(1)

\* the text str without its last two elements, the space and the unit
NumberOf(str) == SubSeq(str, 1, Len(str) - 2)

\* str ends with one space and the unit symbol
EndsWithUnit(str, unit) ==
  /\ Len(str) >= 3
  /\ str[Len(str) - 1] = " "
  /\ str[Len(str)] = unit

Unsigned(t) == IF t # <<>> /\ t[1] = "-" THEN Tail(t) ELSE t

\* digits, a point and exactly n digits (digits alone when n = 0)
IsFixedDigits(u, n) ==
  IF n = 0 THEN u # <<>> /\ AllDigits(u)
  ELSE /\ Len(u) >= n + 2
       /\ u[Len(u) - n] = "."
       /\ AllDigits(SubSeq(u, 1, Len(u) - n - 1))
       /\ AllDigits(SubSeq(u, Len(u) - n + 1, Len(u)))

\* fixed notation with n fractional digits, after a minus sign or none
IsFixedText(t, n) == IsFixedDigits(Unsigned(t), n)

\* one digit, a point, n digits, "e", a sign and two digits or more
IsSciDigits(u, n) ==
  /\ Len(u) >= n + 6
  /\ IsDigit(u[1])
  /\ u[2] = "."
  /\ AllDigits(SubSeq(u, 3, n + 2))
  /\ u[n + 3] = "e"
  /\ IsSign(u[n + 4])
  /\ AllDigits(SubSeq(u, n + 5, Len(u)))

\* scientific notation with n fractional digits, after a minus sign or none
IsSciText(t, n) == IsSciDigits(Unsigned(t), n)

\* where the claim has FormatResult use scientific notation
SciMagnitude(a) ==
  FLt(a, Float64(Lit(<<1>>, 3))) \/ FGt(a, FromInt(1000000))

\* the fractional digits the claim gives to a magnitude in fixed notation
FixedPlaces(a) ==
  IF FGe(a, FromInt(1000)) THEN 0
  ELSE IF FGe(a, FromInt(100)) THEN 1
  ELSE IF FGe(a, FromInt(10)) THEN 2
  ELSE IF FGe(a, FromInt(1)) THEN 3
  ELSE 4

\* a call FormatResult(v, unit) of the decimal constant v has returned str
Formats(v, unit, str) ==
  (call.result = Float64(v) /\ call.unit = unit) => ret.str = str

\* the two examples of the claim
FormatExamples ==
  /\ Formats(Lit(<<1500000>>, 0), "m",
             <<"1", ".", "5", "0", "0", "0", "0", "0", "e", "+", "0", "6",
               " ", "m">>)
  /\ Formats(Lit(<<425>>, 1), "kg", <<"4", "2", ".", "5", "0", " ", "kg">>)

\* C7, as the code has it: FormatResult(result, unit), with a = |result|,
\* renders a finite result in scientific notation with 6 fractional digits
\* exactly when a < 0.001 or a > 1,000,000, and otherwise in fixed notation
\* with 0 fractional digits when a >= 1000, 1 when 100 <= a < 1000, 2 when
\* 10 <= a < 100, 3 when 1 <= a < 10 and 4 when a < 1; an infinite result is
\* rendered "+Inf" or "-Inf" and a NaN "NaN", without digits; in every case
\* the number is followed by one space and the unit symbol.
C7_FormatResult ==
  (call.fn = "FormatResult" /\ ret.done)
    => /\ EndsWithUnit(ret.str, call.unit)
       /\ IsNaN(call.result) => NumberOf(ret.str) = <<"N", "a", "N">>
       /\ IsInf(call.result) =>
            NumberOf(ret.str) = <<IF call.result.s = 1 THEN "-" ELSE "+",
                                  "I", "n", "f">>
       /\ IsFinite(call.result) =>
            /\ SciMagnitude(FAbs(call.result))
                 <=> IsSciText(NumberOf(ret.str), 6)
            /\ ~SciMagnitude(FAbs(call.result))
                 => IsFixedText(NumberOf(ret.str),
                                FixedPlaces(FAbs(call.result)))
       /\ FormatExamples

\* C7, as the claim has it: every result whose magnitude is below 0.001 or
\* above 1,000,000 is rendered in scientific notation with 6 fractional
\* digits, and no other is; the others are rendered in fixed notation with
\* the fractional digits of their magnitude.
C7_AsClaimed ==
  (call.fn = "FormatResult" /\ ret.done)
    => /\ EndsWithUnit(ret.str, call.unit)
       /\ SciMagnitude(FAbs(call.result)) <=> IsSciText(NumberOf(ret.str), 6)
       /\ (~IsNaN(call.result) /\ ~SciMagnitude(FAbs(call.result)))
            => IsFixedText(NumberOf(ret.str), FixedPlaces(FAbs(call.result)))
       /\ FormatExamples

\* FormatResult(1000000, "m") has returned "1000000 m", in fixed notation
C7_Witness ==
  /\ call.fn = "FormatResult"
  /\ ret.done
  /\ FEq(call.result, FromInt(1000000))
  /\ call.result.s = 0
  /\ call.unit = "m"
  /\ ret.str = <<"1", "0", "0", "0", "0", "0", "0", " ", "m">>

\* the three form fields of the request are present and not empty
FieldsPresent ==
  req.value # <<>> /\ req.from # "" /\ req.to # ""

\* a POST the claim has answered 200: its fields are present, its value is
\* numeric, its units are registered and share a dimension
Convertible ==
  /\ FieldsPresent
  /\ ParseFloat(req.value).err = Nil
  /\ SameDimension(req.from, req.to)

\* a failure has the JSON body {success: false, error: <message>}
JsonFailure ==
  resp.status # 200 =>
    resp.json /\ ~resp.success /\ resp.error # <<>> /\ resp.text = <<>>

\* C8, as the code has it: every request to /convert gets one status: 405 if
\* and only if the method is not POST, whatever the form is; a POST gets 200
\* if and only if its form parses, its three fields are present, value is
\* numeric and both units are registered and share a dimension, and 400
\* otherwise (a form that does not parse included); 405 and 400 come with the
\* JSON body {success: false, error: <message>}.
C8_ConvertStatus ==
  (req.path = "/convert" /\ resp.status # 0)
    => /\ resp.status \in {200, 400, 405}
       /\ resp.status = 405 <=> req.method # "POST"
       /\ req.method = "POST"
            => (resp.status = 200 <=> (~req.malformed /\ Convertible))
       /\ JsonFailure

\* C8, as the claim has it: a POST is answered 200 if and only if its three
\* fields are present, value is numeric and both units are registered and
\* share a dimension.
C8_AsClaimed ==
  (req.path = "/convert" /\ resp.status # 0)
    => /\ resp.status \in {200, 400, 405}
       /\ resp.status = 405 <=> req.method # "POST"
       /\ req.method = "POST" => (resp.status = 200 <=> Convertible)
       /\ JsonFailure

\* a POST of value=10, from=kg, to=g whose form does not parse has been
\* answered 400 with a JSON error
C8_Witness ==
  /\ req.path = "/convert"
  /\ req.method = "POST"
  /\ req.malformed
  /\ req.value = <<"1", "0">>
  /\ req.from = "kg"
  /\ req.to = "g"
  /\ resp.status = 400
  /\ resp.json

\* C9: on a successful POST /convert the body is
\* FormatResult(Convert(value, from, to), to).
C9_BodyIsFormatResult ==
  (req.path = "/convert" /\ resp.status = 200)
    => resp.text
         = FormatResult(Convert(uc, fused, ParseFloat(req.value).val,
                                req.from, req.to).val,
                        req.to)

\* C10: a successful POST /convert has status 200 and a body made of the
\* converted value with exactly three fractional digits, one space and the
\* unit symbol submitted as to, whatever the magnitude of the result; the
\* POST of value=10, from=kg, to=g has the body "10000.000 g".
C10_ThreeDecimals ==
  (req.path = "/convert" /\ resp.status = 200)
    => /\ EndsWithUnit(resp.text, req.to)
       /\ IsFixedText(NumberOf(resp.text), 3)
       /\ (req.value = <<"1", "0">> /\ req.from = "kg" /\ req.to = "g")
            => resp.text = <<"1", "0", "0", "0", "0", ".", "0", "0", "0",
                             " ", "g">>

\* the references to maps that the handler of slot i holds
HeldRefs(i) ==
  IF slots[i].pc = "collected"
  THEN {slots[i].data.Units[dim] : dim \in DOMAIN slots[i].data.Units}
  ELSE IF slots[i].pc = "queried" THEN {slots[i].data.units}
  ELSE {}

\* every map a handler holds from GetUnitsByDimension is a map of its own:
\* not the registry's, and not one that another handler holds
FreshCopies ==
  \A i \in DOMAIN slots :
    \A ref \in HeldRefs(i) :
      /\ ref # RegistryRef
      /\ ref \in DOMAIN heap
      /\ \A j \in DOMAIN slots : j # i => ref \notin HeldRefs(j)

\* C11: the registry is never mutated after construction.  Whatever
\* requests to /, /convert, /unit-info and /units-by-dimension the server
\* answers, one at a time or concurrently, with success or failure, no step
\* changes the registry, which so holds the symbols and definitions it was
\* initialised with; and every map GetUnitsByDimension returns is a fresh
\* copy, so that writing to it cannot change the registry.
C11_RegistryImmutable ==
  [](FreshCopies) /\ [][uc' = uc]_vars

\* two handlers run at once, each with the maps GetUnitsByDimension
\* returned to it, after a request has failed
C11_Witness ==
  /\ slots # NoSlots
  /\ slots[1].pc = "collected"
  /\ slots[2].pc = "queried"
  /\ HeldRefs(1) # {}
  /\ HeldRefs(2) # {}
  /\ resp.status = 400

\* C12: the registry is well formed: every registered unit has a factor
\* strictly greater than zero, and every unit whose dimension is not
\* temperature has the offset 0.
C12_RegistryWellFormed ==
  \A sym \in DOMAIN uc.units :
    /\ IsFinite(uc.units[sym].Factor)
    /\ FGt(uc.units[sym].Factor, Zero(0))
    /\ uc.units[sym].Dimension # "temperature"
         => IsZero(uc.units[sym].Offset)

\* the registry is built, with an offset for Celsius and for Fahrenheit and
\* none for the kilogram, and /unit-info has read a unit from it
C12_Witness ==
  /\ DOMAIN uc.units = RegisteredSymbols
  /\ FGt(uc.units["C"].Offset, Zero(0))
  /\ FGt(uc.units["F"].Offset, Zero(0))
  /\ IsZero(uc.units["kg"].Offset)
  /\ req.path = "/unit-info"
  /\ resp.status = 200

\* the dimension tags that registered units carry
RegisteredTags == {uc.units[sym].Dimension : sym \in DOMAIN uc.units}

\* the registered units whose tag is dim
UnitsTagged(dim) ==
  [sym \in {x \in DOMAIN uc.units : uc.units[x].Dimension = dim}
     |-> uc.units[sym]]

NoDuplicates(q) ==
  \A j \in 1..Len(q) : \A k \in 1..Len(q) : q[j] = q[k] => j = k

\* the results homeHandler has got from the query helpers: dims from
\* GetAllDimensions, and byDim[dim] from GetUnitsByDimension(dim) for
\* every dimension dim that GetAllDimensions returned
IsPartition(dims, byDim) ==
  /\ NoDuplicates(dims)
  /\ Elements(dims) = RegisteredTags
  /\ DOMAIN byDim = RegisteredTags
  /\ \A dim \in DOMAIN byDim :
       Deref(uc, heap, byDim[dim]) = UnitsTagged(dim)
  /\ \A sym \in DOMAIN uc.units :
       Cardinality({k \in 1..Len(dims) :
                      sym \in DOMAIN Deref(uc, heap, byDim[dims[k]])}) = 1
  /\ UNION {DOMAIN Deref(uc, heap, byDim[dim]) : dim \in DOMAIN byDim}
       = DOMAIN uc.units

\* C13: the query helpers partition the registry.  GetAllDimensions returns
\* every dimension tag that a registered unit carries, once each and no
\* other; GetUnitsByDimension(d) returns exactly the registered units whose
\* tag is d, and nothing for a tag no unit carries; so every registered unit
\* is in GetUnitsByDimension(d) for exactly one d of GetAllDimensions, and
\* together these results are the whole registry.
C13_QueryPartition ==
  \A i \in DOMAIN slots :
    /\ slots[i].pc = "collected"
         => IsPartition(slots[i].data.Dimensions, slots[i].data.Units)
    /\ slots[i].pc = "queried"
         => /\ Deref(uc, heap, slots[i].data.units)
                 = UnitsTagged(slots[i].req.arg)
            /\ slots[i].req.arg \notin RegisteredTags
                 => DOMAIN Deref(uc, heap, slots[i].data.units) = {}

\* homeHandler holds the results of both helpers while
\* unitsByDimensionHandler holds the empty result for an unknown tag
C13_Witness ==
  /\ slots # NoSlots
  /\ slots[1].pc = "collected"
  /\ Len(slots[1].data.Dimensions) = Cardinality(RegisteredTags)
  /\ slots[2].pc = "queried"
  /\ slots[2].req.arg = "unknown"
  /\ DOMAIN Deref(uc, heap, slots[2].data.units) = {}

\* GET / has been answered after the template failed to load or to render:
\* the handler logs these failures and no other
HomeFailed ==
  /\ req.path = "/"
  /\ resp.status # 0
  /\ logged # <<>>

\* the detail of the failure, which the log has
FailureDetail == logged[2]

Mentions(body, detail) == \E k \in 1..Len(body) : body[k] = detail

\* C14: when GET / fails to load or to render the page template, the
\* response has status 500 and a generic message: the body is a fixed text
\* that holds no detail of the error, which goes to the log alone.
C14_GenericFailure ==
  HomeFailed
    => /\ resp.status = 500
       /\ resp.kind = "text"
       /\ ~Mentions(resp.body, FailureDetail)

\* the symbols of the registered units whose tag is dim
SymbolsTagged(dim) == {sym \in DOMAIN uc.units : uc.units[sym].Dimension = dim}

FromValue == ValueOf(page.fromOptions, page.fromIndex)

ToValue == ValueOf(page.toOptions, page.toIndex)

\* once the page has initialised, both unit selectors offer the units of
\* the dimension selected, each once, and each shows one of them; and the
\* form the page has sent names two units of one dimension
FormInvariant ==
  page.loaded
    => /\ page.dimension \in RegisteredTags
       /\ page.fromOptions = page.toOptions
       /\ NoDuplicates(page.fromOptions)
       /\ Elements(page.fromOptions) = SymbolsTagged(page.dimension)
       /\ FromValue \in SymbolsTagged(page.dimension)
       /\ ToValue \in SymbolsTagged(page.dimension)
       /\ req.path = "/convert" => SameDimension(req.from, req.to)

\* a click on the switch button exchanges the two values selected (so that
\* a second click restores them)
SwitchExchanges ==
  SwitchClick
    => /\ ValueOf(page'.fromOptions, page'.fromIndex) = ToValue
       /\ ValueOf(page'.toOptions, page'.toIndex) = FromValue

\* C15: the form of the page.  After the page has initialised, and after
\* any sequence of changes of the dimension, picks of a unit and clicks on
\* the switch button, the from and to selectors offer the same options, the
\* units of the dimension selected, and their values are two units of that
\* dimension; a switch click exchanges the two values, and two clicks in a
\* row restore them; so a form submitted from the page never names units of
\* different dimensions.
C15_FormInvariant ==
  [](FormInvariant) /\ [][SwitchExchanges]_vars

\* the user has changed the dimension to temperature, clicked the switch
\* button, which has put F before C, and submitted the form
C15_Witness ==
  /\ page.loaded
  /\ page.dimension = "temperature"
  /\ FromValue = "F"
  /\ ToValue = "C"
  /\ req.path = "/convert"
  /\ req.from = "F"
  /\ req.to = "C"
====
